---- MODULE Spec2Model ----
(***************************************************************************)
(* Model of slither/core/declarations/contract.py: the Contract class.     *)
(*                                                                         *)
(* A contract object is modelled by its fields (_inheritance, _functions,  *)
(* _variables, ... and the memoization fields), each a function over the   *)
(* contracts of the model.  The builder (parser and linearizer) populates  *)
(* the fields; the queries of contract.py are actions that leave the name  *)
(* of the query and its arguments in `call` and its result in `ret`.       *)
(***************************************************************************)
EXTENDS Integers, Sequences, FiniteSets, TLC

VARIABLES
    _inheritance,                     \* contract.py:30
    _immediate_inheritance,           \* contract.py:31
    _explicit_base_constructor_calls, \* contract.py:35
    _functions,                       \* contract.py:43, the dict's values in insertion order
    _modifiers,                       \* contract.py:42, the dict's values in insertion order
    _variables,                       \* contract.py:40, the dict's values in insertion order
    _variables_ordered,               \* contract.py:41
    _signatures,                      \* contract.py:48
    _signatures_declared,             \* contract.py:49
    _is_upgradeable,                  \* contract.py:51
    _is_upgradeable_proxy,            \* contract.py:52
    slither_contracts,                \* the contracts of the model: self.slither.contracts
    _using_for,                       \* contract.py:45
    _analysis,                        \* what the function analysis recorded for each member
    work,                             \* the closure computation in progress
    call,                             \* the last query and its arguments
    ret                               \* what the last query returned

vars == <<_inheritance, _immediate_inheritance, _explicit_base_constructor_calls,
          _functions, _modifiers, _variables, _variables_ordered,
          _signatures, _signatures_declared, _is_upgradeable, _is_upgradeable_proxy, slither_contracts,
          _analysis, _using_for, work, call, ret>>

----------------------------------------------------------------------------
(* Bounds of the model *)

\* Largest number of elements the ancestors hand to
\* available_elements_from_inheritances in one query.
MaxElements == 4

\* Largest number of function and modifier objects the builder puts in the
\* member maps of the contracts, all contracts together.
MaxFunctions == 3

\* Largest number of members in the maps of a hierarchy whose call closure is
\* computed.
MaxMembers == 4

\* Largest number of results the function analysis records (call edges,
\* variables read or written, external calls).
MaxFacts == 3

\* Largest number of state variables in the ordered list of a contract.
MaxVariables == 3

\* Largest number of ancestors of a contract whose upgradeability is queried.
MaxAncestors == 2

\* Largest number of nodes of the functions scanned by the proxy detection.
MaxNodes == 2

----------------------------------------------------------------------------
(* Python values *)

\* Python's None
None == [none |-> TRUE]

\* No query has been made since the builder last changed the contract.
NoCall == [op |-> "none"]

\* No closure is being computed.
Idle == [phase |-> "idle"]

Range(s) == {s[i] : i \in 1..Len(s)}

\* reversed(l)
Reverse(s) == [i \in 1..Len(s) |-> s[Len(s) + 1 - i]]

\* d1.update(d2) on dicts modelled as functions
DictUpdate(d1, d2) ==
    [k \in (DOMAIN d1) \cup (DOMAIN d2) |-> IF k \in DOMAIN d2 THEN d2[k] ELSE d1[k]]

EmptyDict == [k \in {} |-> None]

\* The sequences without repetition over the set S
RECURSIVE Arrangements(_)
Arrangements(S) ==
    IF S = {} THEN {<<>>}
    ELSE {<<>>} \cup UNION {{<<x>> \o t : t \in Arrangements(S \ {x})} : x \in S}

\* next((x for x in s if P(x)), None)
First(s, P(_)) ==
    IF \E i \in 1..Len(s) : P(s[i])
    THEN s[CHOOSE i \in 1..Len(s) : P(s[i]) /\ \A k \in 1..(i - 1) : ~P(s[k])]
    ELSE None

\* [F(x) for x in s]
MapSeq(s, F(_)) == [i \in 1..Len(s) |-> F(s[i])]

\* [x for x in s if P(x)]
Filter(s, P(_)) == SelectSeq(s, P)

Position(s, x) == CHOOSE i \in 1..Len(s) : s[i] = x

----------------------------------------------------------------------------
(* The contracts of the model: C and the contracts it can inherit from *)

Contracts == {"A", "B", "C", "D"}

Ancestors == {"A", "B", "D"}

\* The linearized ancestor sequences the linearizer can hand to C:
\* each ancestor at most once, never C itself.
Linearizations == Arrangements(Ancestors)

----------------------------------------------------------------------------
(* Inheritance *)

\* Contract.inheritance
inheritance(c) == _inheritance[c]

\* Contract.inheritance_reverse
inheritance_reverse(c) == Reverse(_inheritance[c])

\* Contract.setInheritance
setInheritance(c, inh, immediate, called) ==
    /\ _inheritance' = [_inheritance EXCEPT ![c] = inh]
    /\ _immediate_inheritance' = [_immediate_inheritance EXCEPT ![c] = immediate]
    /\ _explicit_base_constructor_calls' =
           [_explicit_base_constructor_calls EXCEPT ![c] = called]
    /\ call' = NoCall
    /\ ret' = None
    /\ UNCHANGED <<_functions, _modifiers, _variables, _variables_ordered,
                   _signatures, _signatures_declared,
                   _is_upgradeable, _is_upgradeable_proxy, slither_contracts, _analysis, work, _using_for>>

----------------------------------------------------------------------------
(* available_elements_from_inheritances *)

ElementNames == {"f()", "g()"}

\* An element an ancestor makes available: its full_name and its contract.
Elements == [full_name : ElementNames, contract : Ancestors]

\* element.canonical_name: contract.signature()
canonical_name(v) == <<v.contract, v.full_name>>

\* The `elements` argument: dict(canonical_name -> element), here every element
\* of the hierarchy under its canonical name.
AllElements == [cn \in {canonical_name(v) : v \in Elements} |->
                   CHOOSE v \in Elements : canonical_name(v) = cn]

\* The `getter_available` arguments: what each ancestor makes available, at most
\* one element for a full_name (the ancestor's available-members dict).
Getters ==
    {g \in [Ancestors -> SUBSET Elements] :
        /\ \A a \in Ancestors : \A v, w \in g[a] : v.full_name = w.full_name => v = w
        /\ Cardinality(UNION {{<<a, v>> : v \in g[a]} : a \in Ancestors}) <= MaxElements}

\* The comprehension with the `not` of its filter lost.
CollectedFrom_FilterInverted(getter_available, father, contracts_visited) ==
    LET kept == {v \in getter_available[father] : v.contract \in Range(contracts_visited)}
    IN  [n \in {v.full_name : v \in kept} |-> CHOOSE v \in kept : v.full_name = n]

\* {v.full_name: v for (v) in getter_available(father)
\*                 if not v.contract in contracts_visited}
CollectedFrom(getter_available, father, contracts_visited) ==
    LET kept == {v \in getter_available[father] : v.contract \notin Range(contracts_visited)}
    IN  [n \in {v.full_name : v \in kept} |-> CHOOSE v \in kept : v.full_name = n]

\* The loop over the fathers: inherited_elements after the fathers left to visit.
RECURSIVE InheritedElements(_, _, _, _)
InheritedElements(fathers, getter_available, contracts_visited, inherited_elements) ==
    IF fathers = <<>> THEN inherited_elements
    ELSE LET father == Head(fathers)
         IN  InheritedElements(Tail(fathers), getter_available,
                               Append(contracts_visited, father),
                               DictUpdate(inherited_elements,
                                          CollectedFrom(getter_available, father,
                                                        contracts_visited)))

\* Contract.available_elements_from_inheritances
available_elements_from_inheritances(c, elements, getter_available) ==
    LET inherited_elements ==
            InheritedElements(inheritance_reverse(c), getter_available, <<>>, EmptyDict)
        values == {inherited_elements[k] : k \in DOMAIN inherited_elements}
    IN  [n \in {element.full_name : element \in values} |->
            elements[canonical_name(CHOOSE element \in values : element.full_name = n)]]

\* The query as a step
AvailableElementsFromInheritances(c, getter_available) ==
    /\ call' = [op |-> "available_elements_from_inheritances", self |-> c,
                getter_available |-> getter_available]
    /\ ret' = available_elements_from_inheritances(c, AllElements, getter_available)
    /\ UNCHANGED <<_inheritance, _immediate_inheritance, _explicit_base_constructor_calls,
                   _functions, _modifiers, _variables, _variables_ordered,
                   _signatures, _signatures_declared,
                   _is_upgradeable, _is_upgradeable_proxy, slither_contracts, _analysis, work, _using_for>>

----------------------------------------------------------------------------
(* Functions and modifiers: the objects the builder puts in a contract's maps *)

\* A function or modifier object, with the fields contract.py reads.
\* contract is the contract whose map holds the object, contract_declarer the
\* contract whose source declares it.
Fn(c, n, d) ==
    [contract |-> c, full_name |-> n, contract_declarer |-> d,
     is_constructor |-> (n = "constructor()"), is_shadowed |-> FALSE,
     visibility |-> "public"]

\* How near to c the contract d is in c's hierarchy: c itself is the nearest,
\* then its ancestors from the end of the most-base-first list.
Nearness(c, d) ==
    IF d = c THEN Len(_inheritance[c]) + 1 ELSE Position(_inheritance[c], d)

\* The builder's shadowing pass: a member is shadowed when a more-derived
\* contract of the hierarchy declares a member with the same name.
ResolveShadowing(c, fs) ==
    [i \in 1..Len(fs) |->
        [fs[i] EXCEPT !.is_shadowed =
            \E j \in 1..Len(fs) :
                /\ fs[j].full_name = fs[i].full_name
                /\ Nearness(c, fs[j].contract_declarer) >
                       Nearness(c, fs[i].contract_declarer)]]

\* The number of function and modifier objects in the maps.
RECURSIVE SumLen(_, _)
SumLen(m, S) ==
    IF S = {} THEN 0
    ELSE LET c == CHOOSE x \in S : TRUE IN Len(m[c]) + SumLen(m, S \ {c})

Populated == SumLen(_functions, Contracts) + SumLen(_modifiers, Contracts)

Declares(fs, f) ==
    \E i \in 1..Len(fs) :
        /\ fs[i].full_name = f.full_name
        /\ fs[i].contract_declarer = f.contract_declarer

\* The builder puts the function f (declared by c or by an ancestor of c) in
\* c's function map.
AddFunction(c, f) ==
    /\ f.contract = c
    /\ f.contract_declarer \in {c} \cup Range(_inheritance[c])
    /\ ~Declares(_functions[c], f)
    /\ _functions' = [_functions EXCEPT ![c] = ResolveShadowing(c, Append(@, f))]
    /\ call' = NoCall
    /\ ret' = None
    /\ UNCHANGED <<_inheritance, _immediate_inheritance, _explicit_base_constructor_calls,
                   _modifiers, _variables, _variables_ordered,
                   _signatures, _signatures_declared,
                   _is_upgradeable, _is_upgradeable_proxy, slither_contracts, _analysis, work, _using_for>>

\* The builder puts the modifier m in c's modifier map.
AddModifier(c, m) ==
    /\ m.contract = c
    /\ m.contract_declarer \in {c} \cup Range(_inheritance[c])
    /\ ~Declares(_modifiers[c], m)
    /\ _modifiers' = [_modifiers EXCEPT ![c] = ResolveShadowing(c, Append(@, m))]
    /\ call' = NoCall
    /\ ret' = None
    /\ UNCHANGED <<_inheritance, _immediate_inheritance, _explicit_base_constructor_calls,
                   _functions, _variables, _variables_ordered,
                   _signatures, _signatures_declared,
                   _is_upgradeable, _is_upgradeable_proxy, slither_contracts, _analysis, work, _using_for>>

\* Contract.functions
functions(c) == _functions[c]

\* Contract.modifiers
modifiers(c) == _modifiers[c]

\* A query that changes no field of the contract: its name and arguments, and
\* its result.
Returns(op, c, arg, value) ==
    /\ call' = [op |-> op, self |-> c, arg |-> arg]
    /\ ret' = value
    /\ UNCHANGED <<_inheritance, _immediate_inheritance, _explicit_base_constructor_calls,
                   _functions, _modifiers, _variables, _variables_ordered,
                   _signatures, _signatures_declared,
                   _is_upgradeable, _is_upgradeable_proxy, slither_contracts, _analysis, work, _using_for>>

----------------------------------------------------------------------------
(* Lookups by signature *)

\* The lookup with the shadowed flag not consulted.
get_function_from_signature_AnyMatch(c, function_signature) ==
    First(functions(c), LAMBDA f : f.full_name = function_signature)

\* Contract.get_function_from_signature
get_function_from_signature(c, function_signature) ==
    First(functions(c), LAMBDA f : f.full_name = function_signature /\ ~f.is_shadowed)

\* Contract.get_modifier_from_signature
get_modifier_from_signature(c, modifier_signature) ==
    First(modifiers(c), LAMBDA m : m.full_name = modifier_signature /\ ~m.is_shadowed)

GetFunctionFromSignature(c, sig) ==
    Returns("get_function_from_signature", c, sig, get_function_from_signature(c, sig))

GetModifierFromSignature(c, sig) ==
    Returns("get_modifier_from_signature", c, sig, get_modifier_from_signature(c, sig))

----------------------------------------------------------------------------
(* Constructors *)

\* The scan with the declarer of the constructor not checked.
constructors_declared_AnyDeclarer(c) ==
    First(functions(c), LAMBDA func : func.is_constructor)

\* Contract.constructors_declared
constructors_declared(c) ==
    First(functions(c), LAMBDA func : func.is_constructor /\ func.contract_declarer = c)

\* The loop of Contract.constructor over the inherited contracts
RECURSIVE FirstInheritedConstructor(_)
FirstInheritedConstructor(inherited) ==
    IF inherited = <<>> THEN None
    ELSE LET cst == constructors_declared(Head(inherited))
         IN  IF cst # None THEN cst ELSE FirstInheritedConstructor(Tail(inherited))

\* Contract.constructor
constructor(c) ==
    LET cst == constructors_declared(c)
    IN  IF cst # None THEN cst ELSE FirstInheritedConstructor(inheritance(c))

\* The list comprehension with its `if c.constructor` filter lost.
explicit_base_constructor_calls_Unfiltered(c) ==
    MapSeq(_explicit_base_constructor_calls[c], LAMBDA b : constructor(b))

\* Contract.explicit_base_constructor_calls
explicit_base_constructor_calls(c) ==
    MapSeq(Filter(_explicit_base_constructor_calls[c], LAMBDA b : constructor(b) # None),
           LAMBDA b : constructor(b))

Constructor(c) == Returns("constructor", c, None, constructor(c))

ExplicitBaseConstructorCalls(c) ==
    Returns("explicit_base_constructor_calls", c, None, explicit_base_constructor_calls(c))

----------------------------------------------------------------------------
(* Results of the function analysis: for each function or modifier object,  *)
(* its internal calls, the state variables it reads and writes and its      *)
(* external calls.                                                          *)

\* The identity of a function or modifier object.
Key(f) == <<f.contract, f.contract_declarer, f.full_name>>

\* list(set(...)): a list without duplicates whose order is not specified,
\* kept as the set of its items.
ListOfSet(items) == [items |-> items]

\* A callee that is no Function instance (a Solidity built-in).
SolidityRequire == <<"solidity", "solidity", "require(bool)">>

\* isinstance(c, Function)
IsFunction(x) == x # SolidityRequire

Recorded(k, kind) == {fact[3] : fact \in {x \in _analysis : x[1] = k /\ x[2] = kind}}

\* Function.internal_calls
internal_calls(k) == Recorded(k, "internal_calls")

\* The function analysis records one result for the member k.
RecordAnalysis(k, kind, item) ==
    /\ <<k, kind, item>> \notin _analysis
    /\ _analysis' = _analysis \cup {<<k, kind, item>>}
    /\ call' = NoCall
    /\ ret' = None
    /\ UNCHANGED <<_inheritance, _immediate_inheritance, _explicit_base_constructor_calls,
                   _functions, _modifiers, _variables, _variables_ordered,
                   _signatures, _signatures_declared,
                   _is_upgradeable, _is_upgradeable_proxy, slither_contracts, work, _using_for>>

----------------------------------------------------------------------------
(* all_functions_called: the closure of the internal calls *)

\* [f for f in self.functions + self.modifiers if not f.is_shadowed]
NotShadowed(c) == SelectSeq(functions(c) \o modifiers(c), LAMBDA f : ~f.is_shadowed)

\* The list with the modifiers left out.
EveryFunction_NoModifiers(c) == functions(c)

\* self.functions + self.modifiers
EveryFunction(c) == functions(c) \o modifiers(c)

\* The callees still to explore, with the explored ones not taken out.
Unexplored_All(callees, explored) == {x \in callees : IsFunction(x)}

\* The callees that are functions and were not explored yet.
Unexplored(callees, explored) == {x \in callees : IsFunction(x)} \ explored

\* all_internal_calls of the member k starts: k is explored, its own internal
\* calls are the first values.
EnterMember(w) ==
    LET k == Head(w.pending)
    IN  [w EXCEPT !.phase = "explore",
                  !.pending = Tail(w.pending),
                  !.explored = {k},
                  !.values = internal_calls(k),
                  !.to_explore = Unexplored(internal_calls(k), {k})]

\* One function is taken from the functions to explore; its internal calls are
\* added to the values and those not explored yet are to explore.
Explore(w) ==
    LET k == CHOOSE x \in w.to_explore : TRUE
        explored == w.explored \cup {k}
    IN  [w EXCEPT !.explored = explored,
                  !.values = w.values \cup internal_calls(k),
                  !.to_explore = (w.to_explore \ {k}) \cup
                                     Unexplored(internal_calls(k), explored)]

\* all_internal_calls of the member returns: no function is left to explore.
LeaveMember(w) ==
    [w EXCEPT !.phase = "members",
              !.all_calls = w.all_calls \cup w.values,
              !.values = {}, !.explored = {}]

\* The constructors of the inherited contracts, None left out.
AllConstructors(c) ==
    {Key(constructor(b)) : b \in {x \in Range(inheritance(c)) : constructor(x) # None}}

\* The result with the non-shadowed members themselves left out.
AllFunctionsCalledResult_CalleesOnly(c, all_internal_calls) ==
    {x \in all_internal_calls \cup AllConstructors(c) : IsFunction(x)}

\* The last lines of all_functions_called: the closures, the non-shadowed
\* members themselves and the constructors of the ancestors, without
\* duplicates, the Function instances only.
AllFunctionsCalledResult(c, all_internal_calls) ==
    LET all_calls == all_internal_calls \cup {Key(f) : f \in Range(NotShadowed(c))}
    IN  {x \in all_calls \cup AllConstructors(c) : IsFunction(x)}

UnchangedContract ==
    UNCHANGED <<_inheritance, _immediate_inheritance, _explicit_base_constructor_calls,
                _functions, _modifiers, _variables, _variables_ordered,
                _signatures, _signatures_declared,
                _is_upgradeable, _is_upgradeable_proxy, slither_contracts, _analysis, _using_for>>

\* all_functions_called is entered.
BeginAllFunctionsCalled(c) ==
    /\ work = Idle
    /\ work' = [phase |-> "members", self |-> c,
                pending |-> MapSeq(NotShadowed(c), Key),
                explored |-> {}, to_explore |-> {}, values |-> {}, all_calls |-> {}]
    /\ call' = NoCall
    /\ ret' = None
    /\ UnchangedContract

\* f.all_internal_calls() for the next member
ClosureEnter ==
    /\ work.phase = "members"
    /\ work.pending # <<>>
    /\ work' = EnterMember(work)
    /\ UNCHANGED <<call, ret>>
    /\ UnchangedContract

ClosureExplore ==
    /\ work.phase = "explore"
    /\ work.to_explore # {}
    /\ work' = Explore(work)
    /\ UNCHANGED <<call, ret>>
    /\ UnchangedContract

ClosureLeave ==
    /\ work.phase = "explore"
    /\ work.to_explore = {}
    /\ work' = LeaveMember(work)
    /\ UNCHANGED <<call, ret>>
    /\ UnchangedContract

\* all_functions_called returns.
ReturnAllFunctionsCalled ==
    /\ work.phase = "members"
    /\ work.pending = <<>>
    /\ call' = [op |-> "all_functions_called", self |-> work.self, arg |-> None]
    /\ ret' = ListOfSet(AllFunctionsCalledResult(work.self, work.all_calls))
    /\ work' = Idle
    /\ UnchangedContract

\* A step of the closure computation
ClosureStep == ClosureEnter \/ ClosureExplore \/ ClosureLeave \/ ReturnAllFunctionsCalled

----------------------------------------------------------------------------
(* The flat unions over the members' own sets *)

\* The union as it was before the modifiers were declared.
FlatUnion_BeforeModifiers(c, kind) ==
    UNION {Recorded(Key(f), kind) : f \in Range(functions(c))}

\* [f.kind() for f in self.functions + self.modifiers], flattened, as a set
FlatUnion(c, kind) ==
    UNION {Recorded(Key(f), kind) : f \in Range(EveryFunction(c))}

\* Contract.all_state_variables_written
all_state_variables_written(c) == ListOfSet(FlatUnion(c, "all_state_variables_written"))

\* Contract.all_state_variables_read
all_state_variables_read(c) == ListOfSet(FlatUnion(c, "all_state_variables_read"))

\* Contract.all_library_calls
all_library_calls(c) == ListOfSet(FlatUnion(c, "all_library_calls"))

\* Contract.all_high_level_calls
all_high_level_calls(c) == ListOfSet(FlatUnion(c, "all_high_level_calls"))

AllStateVariablesWritten(c) ==
    Returns("all_state_variables_written", c, None, all_state_variables_written(c))

AllStateVariablesRead(c) ==
    Returns("all_state_variables_read", c, None, all_state_variables_read(c))

AllLibraryCalls(c) == Returns("all_library_calls", c, None, all_library_calls(c))

AllHighLevelCalls(c) == Returns("all_high_level_calls", c, None, all_high_level_calls(c))

----------------------------------------------------------------------------
(* State variables *)

\* A state variable object: contract is the contract that declares it,
\* full_name the signature of its getter.
Var(d, n, vis) == [contract |-> d, name |-> n, full_name |-> n \o "()", visibility |-> vis]

\* d[v.name] = v on the dict kept as its values in insertion order: a name
\* already in the dict keeps its place and takes the new value.
DictSet(values, v) ==
    IF \E i \in 1..Len(values) : values[i].name = v.name
    THEN [i \in 1..Len(values) |-> IF values[i].name = v.name THEN v ELSE values[i]]
    ELSE Append(values, v)

\* The builder puts the state variable v (declared by c or by an ancestor of
\* c) in c's variable map and at the end of c's ordered list.
AddVariable(c, v) ==
    /\ v.contract \in {c} \cup Range(_inheritance[c])
    /\ \A i \in 1..Len(_variables_ordered[c]) :
           ~(/\ _variables_ordered[c][i].contract = v.contract
             /\ _variables_ordered[c][i].name = v.name)
    /\ _variables' = [_variables EXCEPT ![c] = DictSet(@, v)]
    /\ _variables_ordered' = [_variables_ordered EXCEPT ![c] = Append(@, v)]
    /\ call' = NoCall
    /\ ret' = None
    /\ UNCHANGED <<_inheritance, _immediate_inheritance, _explicit_base_constructor_calls,
                   _functions, _modifiers, _signatures, _signatures_declared,
                   _is_upgradeable, _is_upgradeable_proxy, slither_contracts, _analysis, work, _using_for>>

\* Contract.state_variables
state_variables(c) == _variables[c]

\* The ordered list with the inherited variables left out.
state_variables_ordered_DeclaredOnly(c) ==
    SelectSeq(_variables_ordered[c], LAMBDA s : s.contract = c)

\* Contract.state_variables_ordered
state_variables_ordered(c) == _variables_ordered[c]

\* Contract.state_variables_inherited
state_variables_inherited(c) == SelectSeq(state_variables(c), LAMBDA s : s.contract # c)

\* Contract.state_variables_declared
state_variables_declared(c) == SelectSeq(state_variables(c), LAMBDA s : s.contract = c)

StateVariables(c) == Returns("state_variables", c, None, state_variables(c))

StateVariablesOrdered(c) ==
    Returns("state_variables_ordered", c, None, state_variables_ordered(c))

StateVariablesDeclared(c) ==
    Returns("state_variables_declared", c, None, state_variables_declared(c))

----------------------------------------------------------------------------
(* Signatures and the ERC detectors *)

\* v.visibility in ['public', 'external']
IsExposed(m) == m.visibility \in {"public", "external"}

\* What functions_signatures computes when nothing is memoized.
ComputeSignatures(c) ==
    {v.full_name : v \in {x \in Range(state_variables(c)) : IsExposed(x)}}
        \cup {f.full_name : f \in {x \in Range(functions(c)) : IsExposed(x)}}

\* Contract.functions_signatures: the memoized list, computed when the field
\* is None.
functions_signatures(c) ==
    IF _signatures[c] = None THEN ListOfSet(ComputeSignatures(c)) ELSE _signatures[c]

\* A query that reads functions_signatures: the field is written on the first
\* access.
ReturnsWithSignatures(op, c, value) ==
    /\ _signatures' = [_signatures EXCEPT ![c] = functions_signatures(c)]
    /\ call' = [op |-> op, self |-> c, arg |-> None,
                first |-> (_signatures[c] = None), before |-> _signatures[c]]
    /\ ret' = value
    /\ UNCHANGED <<_inheritance, _immediate_inheritance, _explicit_base_constructor_calls,
                   _functions, _modifiers, _variables, _variables_ordered,
                   _signatures_declared, _is_upgradeable, _is_upgradeable_proxy, slither_contracts,
                   _analysis, work, _using_for>>

FunctionsSignatures(c) == ReturnsWithSignatures("functions_signatures", c, functions_signatures(c))

\* Contract.functions_declared
functions_declared(c) == SelectSeq(functions(c), LAMBDA f : f.contract_declarer = c)

\* What functions_signatures_declared computes when nothing is memoized.
ComputeSignaturesDeclared(c) ==
    {v.full_name : v \in {x \in Range(state_variables_declared(c)) : IsExposed(x)}}
        \cup {f.full_name : f \in {x \in Range(functions_declared(c)) : IsExposed(x)}}

\* Contract.functions_signatures_declared: the memoized list, computed when
\* the field is None.
functions_signatures_declared(c) ==
    IF _signatures_declared[c] = None
    THEN ListOfSet(ComputeSignaturesDeclared(c))
    ELSE _signatures_declared[c]

FunctionsSignaturesDeclared(c) ==
    /\ _signatures_declared' =
           [_signatures_declared EXCEPT ![c] = functions_signatures_declared(c)]
    /\ call' = [op |-> "functions_signatures_declared", self |-> c, arg |-> None,
                first |-> (_signatures_declared[c] = None),
                before |-> _signatures_declared[c]]
    /\ ret' = functions_signatures_declared(c)
    /\ UNCHANGED <<_inheritance, _immediate_inheritance, _explicit_base_constructor_calls,
                   _functions, _modifiers, _variables, _variables_ordered,
                   _signatures, _is_upgradeable, _is_upgradeable_proxy,
                   slither_contracts, _analysis, work, _using_for>>

\* slither.utils.erc.ERC20_signatures
ERC20_signatures ==
    {"transfer(address,uint256)", "transferFrom(address,address,uint256)",
     "approve(address,uint256)", "totalSupply()", "balanceOf(address)",
     "allowance(address,address)"}

\* True as soon as one signature of the reference set is present.
is_erc20_AnySignature(c) ==
    \E s \in ERC20_signatures : s \in functions_signatures(c).items

\* Contract.is_erc20
is_erc20(c) ==
    \A s \in ERC20_signatures : s \in functions_signatures(c).items

IsErc20(c) == ReturnsWithSignatures("is_erc20", c, is_erc20(c))

\* True only when transfer(address,uint256) is present.
is_possible_erc20_TransferOnly(c) ==
    "transfer(address,uint256)" \in functions_signatures(c).items

\* Contract.is_possible_erc20
is_possible_erc20(c) ==
    \/ "transfer(address,uint256)" \in functions_signatures(c).items
    \/ "transferFrom(address,address,uint256)" \in functions_signatures(c).items
    \/ "approve(address,uint256)" \in functions_signatures(c).items

IsPossibleErc20(c) == ReturnsWithSignatures("is_possible_erc20", c, is_possible_erc20(c))

----------------------------------------------------------------------------
(* Upgradeability *)

\* A memoized boolean: the field holds None or a boolean.
Bool(b) == [bool |-> b]

UpperLetters ==
    <<"A", "B", "C", "D", "E", "F", "G", "H", "I", "J", "K", "L", "M",
      "N", "O", "P", "Q", "R", "S", "T", "U", "V", "W", "X", "Y", "Z">>

LowerLetters ==
    <<"a", "b", "c", "d", "e", "f", "g", "h", "i", "j", "k", "l", "m",
      "n", "o", "p", "q", "r", "s", "t", "u", "v", "w", "x", "y", "z">>

\* The string left as it is.
lower_Identity(str) == str

\* str.lower(), on a string kept as the list of its characters
lower(str) ==
    [i \in 1..Len(str) |->
        IF \E j \in 1..Len(UpperLetters) : UpperLetters[j] = str[i]
        THEN LowerLetters[CHOOSE j \in 1..Len(UpperLetters) : UpperLetters[j] = str[i]]
        ELSE str[i]]

\* sub in str
Contains(sub, str) ==
    \E i \in 0..(Len(str) - Len(sub)) : SubSeq(str, i + 1, i + Len(sub)) = sub

\* The names the parser gave to the contracts.
ContractNames ==
    [A |-> <<"I", "n", "i", "t", "i", "a", "l", "i", "z", "a", "b", "l", "e">>,
     B |-> <<"T", "o", "k", "e", "n", "U", "p", "g", "r", "a", "d", "e", "a", "b", "l", "e">>,
     C |-> <<"U", "p", "g", "r", "a", "d", "e", "P", "r", "o", "x", "y">>,
     D |-> <<"U", "P", "G", "R", "A", "D", "A", "B", "L", "E">>]

\* Contract.name
name(c) == ContractNames[c]

\* Python's None where a contract is expected.
NoContract == "None"

\* slither.get_contract_from_name
get_contract_from_name(contract_name) ==
    IF \E c \in slither_contracts : name(c) = contract_name
    THEN CHOOSE c \in slither_contracts : name(c) = contract_name
    ELSE NoContract

\* 'upgradeable' in c.name.lower() or 'upgradable' in c.name.lower()
HasUpgradeableName(c) ==
    \/ Contains(<<"u", "p", "g", "r", "a", "d", "e", "a", "b", "l", "e">>, lower(name(c)))
    \/ Contains(<<"u", "p", "g", "r", "a", "d", "a", "b", "l", "e">>, lower(name(c)))

\* The naming heuristic consulted as well when Initializable is not inherited.
ComputeIsUpgradeable_NamesAlways(c) ==
    LET initializable == get_contract_from_name(<<"I", "n", "i", "t", "i", "a", "l", "i", "z", "a", "b", "l", "e">>)
    IN  \/ initializable \in Range(inheritance(c))
        \/ \E x \in Range(inheritance(c) \o <<c>>) : HasUpgradeableName(x)

\* What is_upgradeable computes when nothing is memoized.
ComputeIsUpgradeable(c) ==
    LET initializable == get_contract_from_name(<<"I", "n", "i", "t", "i", "a", "l", "i", "z", "a", "b", "l", "e">>)
    IN  IF initializable # NoContract
        THEN initializable \in Range(inheritance(c))
        ELSE \E x \in Range(inheritance(c) \o <<c>>) : HasUpgradeableName(x)

\* is_upgradeable without the memoized field: computed at every access.
is_upgradeable_Recomputed(c) == ComputeIsUpgradeable(c)

\* Contract.is_upgradeable: the memoized value, computed when the field is None.
is_upgradeable(c) ==
    IF _is_upgradeable[c] = None THEN ComputeIsUpgradeable(c) ELSE _is_upgradeable[c].bool

IsUpgradeable(c) ==
    /\ _is_upgradeable' = [_is_upgradeable EXCEPT ![c] = Bool(is_upgradeable(c))]
    /\ call' = [op |-> "is_upgradeable", self |-> c, arg |-> None,
                first |-> (_is_upgradeable[c] = None), before |-> _is_upgradeable[c]]
    /\ ret' = is_upgradeable(c)
    /\ UNCHANGED <<_inheritance, _immediate_inheritance, _explicit_base_constructor_calls,
                   _functions, _modifiers, _variables, _variables_ordered,
                   _signatures, _signatures_declared, _is_upgradeable_proxy,
                   slither_contracts, _analysis, work, _using_for>>

\* The parser creates the contract c of the model.
RegisterContract(c) ==
    /\ c \notin slither_contracts
    /\ slither_contracts' = slither_contracts \cup {c}
    /\ call' = NoCall
    /\ ret' = None
    /\ UNCHANGED <<_inheritance, _immediate_inheritance, _explicit_base_constructor_calls,
                   _functions, _modifiers, _variables, _variables_ordered,
                   _signatures, _signatures_declared, _is_upgradeable,
                   _is_upgradeable_proxy, _analysis, work, _using_for>>

----------------------------------------------------------------------------
(* Upgradeable proxy detection *)

\* A function object with its fallback classification and its nodes.
FnBody(c, n, d, is_fallback, nodes) ==
    Fn(c, n, d) @@ [is_fallback |-> is_fallback, nodes |-> nodes]

\* Function.all_nodes
all_nodes(f) == f.nodes

\* isinstance(ir, LowLevelCall) and ir.function_name == 'delegatecall'
IsDelegatecallIr(ir) == ir.kind = "LowLevelCall" /\ ir.function_name = "delegatecall"

\* The test of one node: its operations, then its inline assembly.
NodeDelegates(node) ==
    \/ \E i \in 1..Len(node.irs) : IsDelegatecallIr(node.irs[i])
    \/ /\ node.type = "ASSEMBLY"
       /\ node.inline_asm # <<>>
       /\ Contains(<<"d", "e", "l", "e", "g", "a", "t", "e", "c", "a", "l", "l">>, node.inline_asm)

\* The scan with the fallback test left out.
ComputeIsUpgradeableProxy_AnyFunction(c) ==
    \E f \in Range(functions(c)) :
        \E i \in 1..Len(all_nodes(f)) : NodeDelegates(all_nodes(f)[i])

\* What is_upgradeable_proxy computes when nothing is memoized.
ComputeIsUpgradeableProxy(c) ==
    \E f \in Range(functions(c)) :
        /\ f.is_fallback
        /\ \E i \in 1..Len(all_nodes(f)) : NodeDelegates(all_nodes(f)[i])

\* Contract.is_upgradeable_proxy: the memoized value, computed when the field
\* is None.
is_upgradeable_proxy(c) ==
    IF _is_upgradeable_proxy[c] = None
    THEN ComputeIsUpgradeableProxy(c)
    ELSE _is_upgradeable_proxy[c].bool

IsUpgradeableProxy(c) ==
    /\ _is_upgradeable_proxy' =
           [_is_upgradeable_proxy EXCEPT ![c] = Bool(is_upgradeable_proxy(c))]
    /\ call' = [op |-> "is_upgradeable_proxy", self |-> c, arg |-> None,
                first |-> (_is_upgradeable_proxy[c] = None), before |-> _is_upgradeable_proxy[c]]
    /\ ret' = is_upgradeable_proxy(c)
    /\ UNCHANGED <<_inheritance, _immediate_inheritance, _explicit_base_constructor_calls,
                   _functions, _modifiers, _variables, _variables_ordered,
                   _signatures, _signatures_declared, _is_upgradeable,
                   slither_contracts, _analysis, work, _using_for>>

----------------------------------------------------------------------------
(* Lookups by name and by canonical name *)

\* Function.canonical_name: the name of the declaring contract, a dot, the
\* signature.
function_canonical_name(f) == f.contract_declarer \o "." \o f.full_name

\* StateVariable.canonical_name
variable_canonical_name(v) == v.contract \o "." \o v.name

\* Contract.get_function_from_canonical_name
get_function_from_canonical_name(c, cname) ==
    First(functions(c), LAMBDA f : function_canonical_name(f) = cname)

\* Contract.get_modifier_from_canonical_name
get_modifier_from_canonical_name(c, cname) ==
    First(modifiers(c), LAMBDA m : function_canonical_name(m) = cname)

\* Contract.get_state_variable_from_name
get_state_variable_from_name(c, variable_name) ==
    First(state_variables(c), LAMBDA v : v.name = variable_name)

\* Contract.get_state_variable_from_canonical_name
get_state_variable_from_canonical_name(c, cname) ==
    First(state_variables(c), LAMBDA v : v.name = cname)

\* A KeyError raised by the indexing of a dict.
KeyError == [raised |-> "KeyError"]

\* Contract.reverse_using_for
reverse_using_for(c, n) ==
    IF n \in DOMAIN _using_for[c] THEN _using_for[c][n] ELSE KeyError

GetFunctionFromCanonicalName(c, cname) ==
    Returns("get_function_from_canonical_name", c, cname,
            get_function_from_canonical_name(c, cname))

GetModifierFromCanonicalName(c, cname) ==
    Returns("get_modifier_from_canonical_name", c, cname,
            get_modifier_from_canonical_name(c, cname))

GetStateVariableFromName(c, n) ==
    Returns("get_state_variable_from_name", c, n, get_state_variable_from_name(c, n))

GetStateVariableFromCanonicalName(c, cname) ==
    Returns("get_state_variable_from_canonical_name", c, cname,
            get_state_variable_from_canonical_name(c, cname))

ReverseUsingFor(c, n) == Returns("reverse_using_for", c, n, reverse_using_for(c, n))

\* The builder records `using lib for type_name` in c.
AddUsingFor(c, type_name, lib) ==
    /\ type_name \notin DOMAIN _using_for[c]
    /\ _using_for' = [_using_for EXCEPT ![c] = DictUpdate(@, type_name :> <<lib>>)]
    /\ call' = NoCall
    /\ ret' = None
    /\ UNCHANGED <<_inheritance, _immediate_inheritance, _explicit_base_constructor_calls,
                   _functions, _modifiers, _variables, _variables_ordered,
                   _signatures, _signatures_declared, _is_upgradeable,
                   _is_upgradeable_proxy, slither_contracts, _analysis, work>>

----------------------------------------------------------------------------
(* The state after construction: Contract.__init__ *)

Init ==
    /\ _inheritance = [c \in Contracts |-> <<>>]
    /\ _immediate_inheritance = [c \in Contracts |-> <<>>]
    /\ _explicit_base_constructor_calls = [c \in Contracts |-> <<>>]
    /\ _functions = [c \in Contracts |-> <<>>]
    /\ _modifiers = [c \in Contracts |-> <<>>]
    /\ _variables = [c \in Contracts |-> <<>>]
    /\ _variables_ordered = [c \in Contracts |-> <<>>]
    /\ _signatures = [c \in Contracts |-> None]
    /\ _signatures_declared = [c \in Contracts |-> None]
    /\ _is_upgradeable = [c \in Contracts |-> None]
    /\ _is_upgradeable_proxy = [c \in Contracts |-> None]
    /\ slither_contracts = {}
    /\ _using_for = [c \in Contracts |-> EmptyDict]
    /\ _analysis = {}
    /\ work = Idle
    /\ call = NoCall
    /\ ret = None

----------------------------------------------------------------------------
(* Inheritance resolution: the linearizer sets C's ancestors, then the      *)
(* shadowing resolution is queried.                                         *)

LinearizeC ==
    \E inh \in Linearizations : setInheritance("C", inh, inh, <<>>)

\* One shadowing resolution is observed after each linearization.
QueryAvailable ==
    /\ call = NoCall
    /\ \E g \in Getters : AvailableElementsFromInheritances("C", g)

NextInherit == LinearizeC \/ QueryAvailable

SpecInherit == Init /\ [][NextInherit]_vars

----------------------------------------------------------------------------
(* Lookups: the linearizer sets C's ancestors, the builder fills C's        *)
(* function and modifier maps, and the maps are looked up by signature.     *)

Signatures == {"f(uint256)", "g()"}

ModifierSignatures == {"onlyOwner()"}

\* The linearizer runs before the builder fills the member maps.
LinearizeHierarchy(c, lists) ==
    /\ Populated = 0
    /\ \E inh \in lists : \E called \in Arrangements(Range(inh)) :
           setInheritance(c, inh, inh, called)

BuildFunctionOfC ==
    /\ Populated < MaxFunctions
    /\ \E n \in Signatures : \E d \in {"A", "B", "C"} : AddFunction("C", Fn("C", n, d))

BuildModifierOfC ==
    /\ Populated < MaxFunctions
    /\ \E n \in ModifierSignatures : \E d \in {"A", "B", "C"} :
           AddModifier("C", Fn("C", n, d))

LookupFunction == \E sig \in Signatures : GetFunctionFromSignature("C", sig)

LookupModifier == \E sig \in ModifierSignatures : GetModifierFromSignature("C", sig)

NextLookup ==
    \/ LinearizeHierarchy("C", Arrangements({"A", "B"}))
    \/ BuildFunctionOfC
    \/ BuildModifierOfC
    \/ LookupFunction
    \/ LookupModifier

SpecLookup == Init /\ [][NextLookup]_vars

----------------------------------------------------------------------------
(* Constructors: C inherits from A and B, B may inherit from A; the builder *)
(* fills the function maps of the three contracts and the constructors are *)
(* resolved.                                                                *)

ConstructorNames == {"constructor()", "g()"}

LinearizeCtor ==
    \/ LinearizeHierarchy("C", Arrangements({"A", "B"}))
    \/ LinearizeHierarchy("B", Arrangements({"A"}))

BuildFunction ==
    /\ Populated < MaxFunctions
    /\ \E c \in {"A", "B", "C"} : \E n \in ConstructorNames : \E d \in {"A", "B", "C"} :
           AddFunction(c, Fn(c, n, d))

QueryConstructor == \E c \in {"B", "C"} : Constructor(c)

QueryExplicitCalls == ExplicitBaseConstructorCalls("C")

NextCtor == LinearizeCtor \/ BuildFunction \/ QueryConstructor \/ QueryExplicitCalls

SpecCtor == Init /\ [][NextCtor]_vars

----------------------------------------------------------------------------
(* Call closure: C may inherit from A; the builder fills the maps in source *)
(* order, the function analysis records internal calls, and                 *)
(* all_functions_called is computed step by step.                           *)

\* The members of the hierarchy, in the order the builder meets them.
ClosureMembers ==
    <<Fn("A", "constructor()", "A"), Fn("C", "f()", "A"), Fn("C", "f()", "C"),
      Fn("C", "g()", "C"), Fn("C", "h()", "C")>>

ClosureModifier == Fn("C", "onlyOwner()", "C")

\* The members of the three-function hierarchy of the cycle.
CycleMembers ==
    <<Fn("A", "constructor()", "A"), Fn("C", "f()", "C"), Fn("C", "g()", "C"),
      Fn("C", "h()", "C")>>

KeysOf(c) == {Key(f) : f \in Range(functions(c) \o modifiers(c))}

\* The builder adds the members in the order of `members`.
BuildInOrder(members) ==
    /\ work = Idle
    /\ Populated < MaxMembers
    /\ \E i \in 1..Len(members) :
           /\ \A j \in i..Len(members) :
                  Key(members[j]) \notin KeysOf(members[j].contract)
           /\ AddFunction(members[i].contract, members[i])

BuildClosureModifier ==
    /\ work = Idle
    /\ Populated < MaxMembers
    /\ AddModifier("C", ClosureModifier)

\* The function analysis records an internal call of a member of C: to a member
\* of C, or (from f) to a Solidity built-in.
RecordInternalCall ==
    /\ work = Idle
    /\ Cardinality(_analysis) < MaxFacts
    /\ \E k \in KeysOf("C") :
           \E callee \in {x \in KeysOf("C") : x \notin {Key(ClosureModifier)}}
                             \cup (IF k[3] = "f()" THEN {SolidityRequire} ELSE {}) :
               RecordAnalysis(k, "internal_calls", callee)

LinearizeClosure ==
    /\ work = Idle
    /\ \E inh \in Arrangements({"A"}) : Populated = 0 /\ setInheritance("C", inh, inh, <<>>)

QueryAllFunctionsCalled == BeginAllFunctionsCalled("C")

NextClosure ==
    \/ LinearizeClosure
    \/ BuildInOrder(ClosureMembers)
    \/ BuildClosureModifier
    \/ RecordInternalCall
    \/ QueryAllFunctionsCalled
    \/ ClosureStep

SpecClosure == Init /\ [][NextClosure]_vars

NextCycle ==
    \/ LinearizeClosure
    \/ BuildInOrder(CycleMembers)
    \/ RecordInternalCall
    \/ QueryAllFunctionsCalled
    \/ ClosureStep

\* The query runs to its end: nothing suspends a step of the computation.
SpecCycle == Init /\ [][NextCycle]_vars /\ WF_work(ClosureStep)

----------------------------------------------------------------------------
(* Flat unions: C inherits from A and holds A's f (shadowed), its own f and *)
(* a modifier; the function analysis records the members' own sets and the  *)
(* calls of C's members to a function of the library D.                     *)

FlatMembers == <<Fn("C", "f()", "A"), Fn("C", "f()", "C")>>

LibraryFunction == <<"D", "D", "g()">>

\* The sets the function analysis computes for each function, and what they hold.
FlatItems ==
    [all_state_variables_written |-> {<<"C", "x">>, <<"C", "y">>},
     all_state_variables_read |-> {<<"C", "x">>, <<"C", "y">>},
     all_library_calls |-> {<<"D", "g()">>},
     all_high_level_calls |-> {<<"B", "g()">>}]

\* The function analysis records an element of a member's own set, or of the
\* library function's.
RecordOwnSet ==
    /\ Cardinality(_analysis) < MaxFacts
    /\ \E k \in KeysOf("C") \cup {LibraryFunction} :
           \E kind \in DOMAIN FlatItems : \E item \in FlatItems[kind] :
               RecordAnalysis(k, kind, item)

\* The function analysis records that a member of C calls the library function.
RecordLibraryCall ==
    /\ Cardinality(_analysis) < MaxFacts
    /\ \E k \in KeysOf("C") : RecordAnalysis(k, "internal_calls", LibraryFunction)

QueryFlat ==
    /\ call = NoCall
    /\ \/ AllStateVariablesWritten("C")
       \/ AllStateVariablesRead("C")
       \/ AllLibraryCalls("C")
       \/ AllHighLevelCalls("C")

NextFlat ==
    \/ LinearizeClosure
    \/ BuildInOrder(FlatMembers)
    \/ BuildClosureModifier
    \/ RecordOwnSet
    \/ RecordLibraryCall
    \/ QueryFlat

SpecFlat == Init /\ [][NextFlat]_vars

----------------------------------------------------------------------------
(* Queries between changes: C may inherit from A, which has a constructor; *)
(* C is given the functions f and g, then, once a query has returned, a     *)
(* modifier; the function analysis records own sets and internal calls, and *)
(* the five closure queries run in between.                                 *)

FlatQueries ==
    {"all_state_variables_written", "all_state_variables_read",
     "all_library_calls", "all_high_level_calls"}

LaterMembers == <<Fn("A", "constructor()", "A"), Fn("C", "f()", "C"), Fn("C", "g()", "C")>>

ClosureQueries == FlatQueries \cup {"all_functions_called"}

\* The modifier is declared only when a closure query has just returned.
BuildModifierAfterQuery ==
    /\ call.op \in ClosureQueries
    /\ BuildClosureModifier

\* The function analysis records an element of the own set of a member of C.
RecordMemberSet ==
    /\ work = Idle
    /\ Cardinality(_analysis) < MaxFacts
    /\ \E k \in KeysOf("C") : \E kind \in FlatQueries :
           RecordAnalysis(k, kind, <<"C", "x">>)

QueryBetweenChanges ==
    /\ work = Idle
    /\ \/ AllStateVariablesWritten("C")
       \/ AllStateVariablesRead("C")
       \/ AllLibraryCalls("C")
       \/ AllHighLevelCalls("C")
       \/ BeginAllFunctionsCalled("C")

NextStale ==
    \/ LinearizeClosure
    \/ BuildInOrder(LaterMembers)
    \/ BuildModifierAfterQuery
    \/ RecordMemberSet
    \/ RecordInternalCall
    \/ QueryBetweenChanges
    \/ ClosureStep

SpecStale == Init /\ [][NextStale]_vars

----------------------------------------------------------------------------
(* State variables: C may inherit from A; the builder fills C's variable    *)
(* map and ordered list with the variables of A and of C.                   *)

VariableNames == {"x", "y"}

Visibilities == {"public", "internal"}

BuildVariable ==
    /\ Len(_variables_ordered["C"]) < MaxVariables
    /\ \E d \in {"A", "C"} : \E n \in VariableNames : \E vis \in Visibilities :
           AddVariable("C", Var(d, n, vis))

LinearizeVars == \E inh \in Arrangements({"A"}) : setInheritance("C", inh, inh, <<>>)

QueryVariables ==
    /\ call = NoCall
    /\ \/ StateVariables("C")
       \/ StateVariablesOrdered("C")
       \/ StateVariablesDeclared("C")

NextVars == LinearizeVars \/ BuildVariable \/ QueryVariables

SpecVars == Init /\ [][NextVars]_vars

----------------------------------------------------------------------------
(* ERC detection: the builder gives C functions among the ERC20 signatures  *)
(* and one more, external or internal, and a state variable totalSupply;    *)
(* the detectors are queried once the contract is built.                    *)

ErcFunctions ==
    <<"transfer(address,uint256)", "transferFrom(address,address,uint256)",
      "approve(address,uint256)", "totalSupply()", "balanceOf(address)",
      "allowance(address,address)", "mint(uint256)">>

\* The builder works before the first query: the model is read-only once a
\* derived value is memoized.
BuildErcFunction ==
    /\ _signatures["C"] = None
    /\ \E i \in 1..Len(ErcFunctions) : \E vis \in {"external", "internal"} :
           /\ \A j \in i..Len(ErcFunctions) :
                  \A k \in 1..Len(_functions["C"]) :
                      _functions["C"][k].full_name # ErcFunctions[j]
           /\ AddFunction("C", [Fn("C", ErcFunctions[i], "C") EXCEPT !.visibility = vis])

BuildErcVariable ==
    /\ _signatures["C"] = None
    /\ \E vis \in {"public", "private"} : AddVariable("C", Var("C", "totalSupply", vis))

QueryErc == IsErc20("C") \/ FunctionsSignatures("C") \/ IsPossibleErc20("C")

NextErc == BuildErcFunction \/ BuildErcVariable \/ QueryErc

SpecErc == Init /\ [][NextErc]_vars

----------------------------------------------------------------------------
(* Upgradeability: the parser creates contracts among Initializable (A),    *)
(* TokenUpgradeable (B), UpgradeProxy (C) and UPGRADABLE (D); the            *)
(* linearizer gives C and D their ancestors; is_upgradeable is queried.     *)

RegisterAny == \E c \in Contracts : RegisterContract(c)

\* The ancestor lists of at most two contracts.
ShortLinearizations == {inh \in Linearizations : Len(inh) <= MaxAncestors}

LinearizeUpgrade ==
    \/ \E inh \in ShortLinearizations :
           /\ {"C"} \cup Range(inh) \subseteq slither_contracts
           /\ inh # _inheritance["C"]
           /\ setInheritance("C", inh, inh, <<>>)
    \/ \E inh \in {<<>>, <<"A">>} :
           /\ {"D"} \cup Range(inh) \subseteq slither_contracts
           /\ inh # _inheritance["D"]
           /\ setInheritance("D", inh, inh, <<>>)

QueryUpgradeable == \E c \in slither_contracts \cap {"B", "C", "D"} : IsUpgradeable(c)

NextUpgrade == RegisterAny \/ LinearizeUpgrade \/ QueryUpgradeable

SpecUpgrade == Init /\ [][NextUpgrade]_vars

----------------------------------------------------------------------------
(* Linearizing again: the contracts are registered first; C and D are then  *)
(* linearized, queried for is_upgradeable, and linearized again with        *)
(* different data.                                                          *)

RegisterBeforeLinearizing ==
    /\ \A c \in Contracts : _inheritance[c] = <<>> /\ _is_upgradeable[c] = None
    /\ RegisterAny

QueryLinearized ==
    \E c \in slither_contracts \cap {"C", "D"} :
        /\ _inheritance[c] # <<>>
        /\ IsUpgradeable(c)

NextRelinearize == RegisterBeforeLinearizing \/ LinearizeUpgrade \/ QueryLinearized

SpecRelinearize == Init /\ [][NextRelinearize]_vars

----------------------------------------------------------------------------
(* Proxy detection: the builder gives C a fallback function and a function  *)
(* f, each with a few nodes; is_upgradeable_proxy is queried.               *)

\* A node whose operation is a low-level delegatecall.
DelegatecallNode ==
    [type |-> "EXPRESSION", inline_asm |-> <<>>,
     irs |-> <<[kind |-> "LowLevelCall", function_name |-> "delegatecall"]>>]

\* A node whose operation is a plain low-level call.
PlainCallNode ==
    [type |-> "EXPRESSION", inline_asm |-> <<>>,
     irs |-> <<[kind |-> "LowLevelCall", function_name |-> "call"]>>]

\* A node that calls a function named delegatecall of another contract.
HighLevelCallNode ==
    [type |-> "EXPRESSION", inline_asm |-> <<>>,
     irs |-> <<[kind |-> "HighLevelCall", function_name |-> "delegatecall"]>>]

\* An assembly node: r:=delegatecall(g)
AssemblyDelegatecallNode ==
    [type |-> "ASSEMBLY", irs |-> <<>>, inline_asm |-> <<"r", ":", "=", "d", "e", "l", "e", "g", "a", "t", "e", "c", "a", "l", "l", "(", "g", ")">>]

\* An assembly node: r:=call(g)
AssemblyCallNode ==
    [type |-> "ASSEMBLY", irs |-> <<>>, inline_asm |-> <<"r", ":", "=", "c", "a", "l", "l", "(", "g", ")">>]

\* An assembly node without text.
AssemblyEmptyNode == [type |-> "ASSEMBLY", irs |-> <<>>, inline_asm |-> <<>>]

Nodes ==
    {DelegatecallNode, PlainCallNode, HighLevelCallNode, AssemblyDelegatecallNode,
     AssemblyCallNode, AssemblyEmptyNode}

BuildProxyFunction ==
    \/ AddFunction("C", FnBody("C", "()", "C", TRUE, <<>>))
    \/ AddFunction("C", FnBody("C", "f()", "C", FALSE, <<>>))

\* The number of nodes of the functions of c.
RECURSIVE NodeCount(_)
NodeCount(fs) == IF fs = <<>> THEN 0 ELSE Len(Head(fs).nodes) + NodeCount(Tail(fs))

\* The function analysis adds a node to the control flow of a function of c.
AddNode(c, node) ==
    /\ NodeCount(_functions[c]) < MaxNodes
    /\ \E i \in 1..Len(_functions[c]) :
           _functions' = [_functions EXCEPT ![c][i].nodes = Append(@, node)]
    /\ call' = NoCall
    /\ ret' = None
    /\ UNCHANGED <<_inheritance, _immediate_inheritance, _explicit_base_constructor_calls,
                   _modifiers, _variables, _variables_ordered,
                   _signatures, _signatures_declared, _is_upgradeable,
                   _is_upgradeable_proxy, slither_contracts, _analysis, work, _using_for>>

BuildNode == \E node \in Nodes : AddNode("C", node)

QueryProxy == IsUpgradeableProxy("C")

NextProxy == BuildProxyFunction \/ BuildNode \/ QueryProxy

SpecProxy == Init /\ [][NextProxy]_vars

----------------------------------------------------------------------------
(* Memoized values: Initializable and C are registered, C is linearized,    *)
(* given a fallback function and a function f with nodes, and queried for   *)
(* its four memoized values; the builders go on acting between the queries. *)

RegisterMemo == \E c \in {"A", "C"} : RegisterContract(c)

LinearizeMemo ==
    \E inh \in {<<>>, <<"A">>} :
        /\ {"C"} \cup Range(inh) \subseteq slither_contracts
        /\ inh # _inheritance["C"]
        /\ setInheritance("C", inh, inh, <<>>)

BuildMemoNode == \E node \in {DelegatecallNode, PlainCallNode} : AddNode("C", node)

QueryMemo ==
    /\ "C" \in slither_contracts
    /\ \/ FunctionsSignatures("C")
       \/ FunctionsSignaturesDeclared("C")
       \/ IsUpgradeable("C")
       \/ IsUpgradeableProxy("C")

NextMemo == RegisterMemo \/ LinearizeMemo \/ BuildProxyFunction \/ BuildMemoNode \/ QueryMemo

SpecMemo == Init /\ [][NextMemo]_vars

----------------------------------------------------------------------------
(* Lookups: C may inherit from A; the builder gives C functions f(),        *)
(* modifiers m() and variables x declared by A or by C and a using-for      *)
(* directive; the members are looked up by names that match or do not.      *)

LinearizeNames == LinearizeHierarchy("C", Arrangements({"A"}))

BuildNamedMember ==
    /\ Populated < MaxFunctions
    /\ \E d \in {"A", "C"} :
           \/ AddFunction("C", Fn("C", "f()", d))
           \/ AddModifier("C", Fn("C", "m()", d))

BuildNamedVariable ==
    /\ Len(_variables_ordered["C"]) < MaxVariables
    /\ \E d \in {"A", "C"} : AddVariable("C", Var(d, "x", "public"))

BuildUsingFor == AddUsingFor("C", "uint256", "SafeMath")

LookupByName ==
    /\ call = NoCall
    /\ \/ \E sig \in {"f()", "g()"} : GetFunctionFromSignature("C", sig)
       \/ \E sig \in {"m()", "n()"} : GetModifierFromSignature("C", sig)
       \/ \E cname \in {"A.f()", "C.f()", "C.g()"} : GetFunctionFromCanonicalName("C", cname)
       \/ \E cname \in {"A.m()", "C.m()", "C.n()"} : GetModifierFromCanonicalName("C", cname)
       \/ \E n \in {"x", "y"} : GetStateVariableFromName("C", n)
       \/ \E cname \in {"A.x", "C.x", "C.y"} : GetStateVariableFromCanonicalName("C", cname)
       \/ \E n \in {"uint256", "address"} : ReverseUsingFor("C", n)
       \/ Constructor("C")

NextNames ==
    \/ LinearizeNames
    \/ BuildNamedMember
    \/ BuildNamedVariable
    \/ BuildUsingFor
    \/ LookupByName

SpecNames == Init /\ [][NextNames]_vars

----------------------------------------------------------------------------
(* Signatures: C may inherit from A; the builder gives C functions f() and  *)
(* g(), external or internal, and variables x, public or private, declared  *)
(* by A or by C; the signature sets are queried.                            *)

BuildSignedFunction ==
    /\ Populated < MaxFunctions - 1
    /\ \E n \in {"f()", "g()"} : \E d \in {"A", "C"} : \E vis \in {"external", "internal"} :
           AddFunction("C", [Fn("C", n, d) EXCEPT !.visibility = vis])

BuildSignedVariable ==
    /\ Len(_variables_ordered["C"]) < MaxVariables - 1
    /\ \E d \in {"A", "C"} : \E vis \in {"public", "private"} :
           AddVariable("C", Var(d, "x", vis))

QuerySignatures == FunctionsSignatures("C") \/ FunctionsSignaturesDeclared("C")

NextSigs == LinearizeNames \/ BuildSignedFunction \/ BuildSignedVariable \/ QuerySignatures

SpecSigs == Init /\ [][NextSigs]_vars

----------------------------------------------------------------------------
(* Claims on the shadowing resolution *)

IsAvailableQuery == call.op = "available_elements_from_inheritances"

\* The positions in the inheritance list of `self` (most-base-first, so a larger
\* position is nearer to self) of the ancestors that contribute an element
\* named n: the ancestor makes it available and the element's contract was
\* not visited before the ancestor.
Contributors(inh, g, n) ==
    {i \in 1..Len(inh) :
        \E v \in g[inh[i]] :
            /\ v.full_name = n
            /\ v.contract \notin {inh[k] : k \in (i + 1)..Len(inh)}}

ContributedBy(inh, g, i, n) == CHOOSE v \in g[inh[i]] : v.full_name = n

Nearest(S) == CHOOSE i \in S : \A k \in S : k <= i

\* C1: when ancestors of the querying contract contribute elements with the same
\* full_name, the entry of the result is the one contributed by the ancestor
\* nearest to the querying contract (the latest in the most-base-first list).
C1_NearestAncestorWins ==
    IsAvailableQuery =>
        LET inh == _inheritance[call.self]
            g   == call.getter_available
        IN  \A n \in ElementNames :
                Contributors(inh, g, n) # {} =>
                    /\ n \in DOMAIN ret
                    /\ ret[n] = AllElements[canonical_name(
                                   ContributedBy(inh, g, Nearest(Contributors(inh, g, n)), n))]

\* C is a diamond: A and B both inherit the shared base D.
IsDiamond(inh) ==
    /\ {"A", "B", "D"} \subseteq Range(inh)
    /\ Position(inh, "D") < Position(inh, "A")
    /\ Position(inh, "D") < Position(inh, "B")

\* The members of D that are visible on D and, through inheritance, on A and on B.
SharedBaseMembers(g) == {e \in g["D"] \cap g["A"] \cap g["B"] : e.contract = "D"}

\* C2: in a diamond, each visible member of the shared base D is in the result
\* exactly once however many paths reach D, and every element of the result was
\* collected from an ancestor at which its contract had not been visited yet.
C2_DiamondBaseOnce ==
    IsAvailableQuery =>
        LET inh == _inheritance[call.self]
            g   == call.getter_available
        IN  /\ IsDiamond(inh) =>
                   \A e \in SharedBaseMembers(g) :
                       Cardinality({n \in DOMAIN ret :
                                       ret[n] = AllElements[canonical_name(e)]}) = 1
            /\ \A n \in DOMAIN ret :
                   \E i \in 1..Len(inh) : \E v \in g[inh[i]] :
                       /\ ret[n] = AllElements[canonical_name(v)]
                       /\ v.contract \notin {inh[k] : k \in (i + 1)..Len(inh)}

\* A diamond whose shared base has a visible member has been resolved.
C2_Witness ==
    /\ IsAvailableQuery
    /\ IsDiamond(_inheritance[call.self])
    /\ SharedBaseMembers(call.getter_available) # {}
    /\ \E n \in DOMAIN ret : ret[n].contract = "D"

----------------------------------------------------------------------------
(* Claims on the lookups by signature *)

IsSignatureLookup ==
    call.op \in {"get_function_from_signature", "get_modifier_from_signature"}

\* The map a signature lookup reads.
LookedUp ==
    IF call.op = "get_function_from_signature"
    THEN _functions[call.self] ELSE _modifiers[call.self]

\* The declaration of the signature sig by the contract d in the member map fs.
DeclarationsOf(fs, sig, d) ==
    {m \in Range(fs) : m.full_name = sig /\ m.contract_declarer = d}

\* a and b are ancestors of c, a nearer to c than b.
NearerAncestor(c, a, b) ==
    /\ a \in Range(_inheritance[c])
    /\ b \in Range(_inheritance[c])
    /\ Position(_inheritance[c], a) > Position(_inheritance[c], b)

\* C3 as stated: if a nearer ancestor A and a farther ancestor B both declare the
\* signature s and B's declaration carries the shadowed flag, the lookup of s
\* returns A's declaration.
C3_NearerDeclarationReturned ==
    IsSignatureLookup =>
        \A a, b \in Contracts :
            /\ NearerAncestor(call.self, a, b)
            /\ DeclarationsOf(LookedUp, call.arg, a) # {}
            /\ \E m \in DeclarationsOf(LookedUp, call.arg, b) : m.is_shadowed
            => ret \in DeclarationsOf(LookedUp, call.arg, a)

\* C3 as amended: the same when A's declaration does not itself carry the
\* shadowed flag; and in every case the lookup returns no shadowed declaration,
\* whatever the insertion order of the map.
C3_UnshadowedNearerDeclarationReturned ==
    IsSignatureLookup =>
        /\ \A a, b \in Contracts :
               /\ NearerAncestor(call.self, a, b)
               /\ \E m \in DeclarationsOf(LookedUp, call.arg, a) : ~m.is_shadowed
               /\ \E m \in DeclarationsOf(LookedUp, call.arg, b) : m.is_shadowed
               => /\ ret \in DeclarationsOf(LookedUp, call.arg, a)
                  /\ ret \notin DeclarationsOf(LookedUp, call.arg, b)
        /\ ret # None => ~ret.is_shadowed

\* The farther ancestor's shadowed declaration was inserted first, and the
\* lookup returned the nearer ancestor's.
C3_Witness ==
    /\ call.op = "get_function_from_signature"
    /\ NearerAncestor("C", "A", "B")
    /\ Len(_functions["C"]) >= 2
    /\ _functions["C"][1].contract_declarer = "B"
    /\ _functions["C"][1].full_name = call.arg
    /\ _functions["C"][1].is_shadowed
    /\ ret \in DeclarationsOf(_functions["C"], call.arg, "A")

----------------------------------------------------------------------------
(* Claims on the constructors *)

\* The constructors the contract x declares itself.
DeclaredConstructors(x) ==
    {f \in Range(_functions[x]) : f.is_constructor /\ f.contract_declarer = x}

\* The positions of the ancestors of c that declare a constructor.
DeclaringAncestors(c) ==
    {i \in 1..Len(_inheritance[c]) : DeclaredConstructors(_inheritance[c][i]) # {}}

\* C4: constructor is the contract's own declared constructor when it has one,
\* otherwise the declared constructor of the first ancestor of the
\* most-base-first inheritance list that declares one, otherwise None.
C4_ConstructorResolution ==
    call.op = "constructor" =>
        LET c == call.self
        IN  /\ DeclaredConstructors(c) # {} => ret \in DeclaredConstructors(c)
            /\ DeclaredConstructors(c) = {} /\ DeclaringAncestors(c) # {} =>
                   \E i \in DeclaringAncestors(c) :
                       /\ \A k \in DeclaringAncestors(c) : i <= k
                       /\ ret \in DeclaredConstructors(_inheritance[c][i])
            /\ DeclaredConstructors(c) = {} /\ DeclaringAncestors(c) = {} => ret = None

\* B declares no constructor and inherits A, which declares one: B.constructor
\* is A's constructor.
C4_Witness ==
    /\ call.op = "constructor"
    /\ call.self = "B"
    /\ DeclaredConstructors("B") = {}
    /\ _inheritance["B"] = <<"A">>
    /\ ret \in DeclaredConstructors("A")

\* The positions of the recorded explicit base-constructor calls whose contract
\* has a resolved constructor.
ResolvedCalls(c) ==
    {i \in 1..Len(_explicit_base_constructor_calls[c]) :
        constructor(_explicit_base_constructor_calls[c][i]) # None}

\* C5: explicit_base_constructor_calls is, in the recorded order, the resolved
\* constructor of each recorded contract that has one; it holds no None and is
\* no longer than the recorded list.
C5_ExplicitCallsResolved ==
    call.op = "explicit_base_constructor_calls" =>
        LET c == call.self
            recorded == _explicit_base_constructor_calls[c]
        IN  /\ \A i \in 1..Len(ret) : ret[i] # None
            /\ Len(ret) <= Len(recorded)
            /\ Len(ret) = Cardinality(ResolvedCalls(c))
            /\ \A i \in ResolvedCalls(c) :
                   ret[Cardinality({k \in ResolvedCalls(c) : k <= i})] =
                       constructor(recorded[i])

\* Of two recorded calls, the one to a contract without constructor was dropped.
C5_Witness ==
    /\ call.op = "explicit_base_constructor_calls"
    /\ Len(_explicit_base_constructor_calls[call.self]) = 2
    /\ Len(ret) = 1
    /\ constructor(_explicit_base_constructor_calls[call.self][1]) = None

----------------------------------------------------------------------------
(* Claims on the call closure *)

IsAllFunctionsCalled == call.op = "all_functions_called"

\* The functions a function calls directly.
Callees(k) == {x \in internal_calls(k) : IsFunction(x)}

\* The functions reached from the set S of functions by at most n further calls.
RECURSIVE ReachedWithin(_, _)
ReachedWithin(S, n) ==
    IF n = 0 THEN S
    ELSE ReachedWithin(S \cup UNION {Callees(k) : k \in S}, n - 1)

\* The functions reachable from the member k by one internal call or more.
ReachableFrom(k) == ReachedWithin(Callees(k), Cardinality(_analysis))

\* The keys of the non-shadowed functions and modifiers of c.
NotShadowedKeys(c) == {Key(f) : f \in {m \in Range(EveryFunction(c)) : ~m.is_shadowed}}

ShadowedKeys(c) == {Key(f) : f \in {m \in Range(EveryFunction(c)) : m.is_shadowed}}

ReachableFromMembers(c) == UNION {ReachableFrom(k) : k \in NotShadowedKeys(c)}

\* The resolved constructors of the ancestors of c that have one.
AncestorConstructors(c) ==
    {Key(constructor(_inheritance[c][i])) :
        i \in {j \in 1..Len(_inheritance[c]) : constructor(_inheritance[c][j]) # None}}

CycleKeys == {<<"C", "C", "f()">>, <<"C", "C", "g()">>, <<"C", "C", "h()">>}

\* The call edges f -> g -> h -> f are recorded for three functions of C.
HasCycle ==
    /\ CycleKeys \subseteq KeysOf("C")
    /\ <<"C", "C", "g()">> \in internal_calls(<<"C", "C", "f()">>)
    /\ <<"C", "C", "h()">> \in internal_calls(<<"C", "C", "g()">>)
    /\ <<"C", "C", "f()">> \in internal_calls(<<"C", "C", "h()">>)

\* C6: on the cycle f -> g -> h -> f, all_functions_called, once entered,
\* returns, and returns exactly f, g, h and the resolved constructors of the
\* ancestors; the exploration never takes up an explored function again.
C6_CycleTerminates ==
    /\ (work.phase # "idle" /\ HasCycle) ~>
           (IF work = Idle /\ IsAllFunctionsCalled
            THEN ret.items = CycleKeys \cup AncestorConstructors("C")
            ELSE FALSE)
    /\ [](work.phase = "explore" => work.to_explore \cap work.explored = {})

\* The closure of the cycle was returned, with the constructor of the ancestor.
C6_Witness ==
    /\ IsAllFunctionsCalled
    /\ HasCycle
    /\ AncestorConstructors("C") # {}
    /\ ret.items = CycleKeys \cup AncestorConstructors("C")

\* C7 as stated: all_functions_called is the union, over the non-shadowed
\* functions and modifiers, of the functions reachable from them by internal
\* calls, plus the resolved constructors of the ancestors.
C7_UnionOfReachable ==
    IsAllFunctionsCalled =>
        ret.items = ReachableFromMembers(call.self) \cup AncestorConstructors(call.self)

\* C7 as amended: the union holds the non-shadowed functions and modifiers
\* themselves as well; a shadowed function is in the result only when a call
\* reaches it or it is the resolved constructor of an ancestor.
C7_MembersAndReachable ==
    IsAllFunctionsCalled =>
        /\ ret.items = NotShadowedKeys(call.self) \cup ReachableFromMembers(call.self)
                     \cup AncestorConstructors(call.self)
        /\ \A k \in ret.items \cap ShadowedKeys(call.self) :
               k \in ReachableFromMembers(call.self) \cup AncestorConstructors(call.self)

\* The result holds a non-shadowed member no call reaches and a shadowed
\* function a call reaches.
C7_Witness ==
    /\ IsAllFunctionsCalled
    /\ \E k \in ret.items : k \in NotShadowedKeys("C") /\ k \notin ReachableFromMembers("C")
    /\ \E k \in ret.items : k \in ShadowedKeys("C")

----------------------------------------------------------------------------
(* Claims on the flat unions *)

\* The function and modifier objects in the maps of c, shadowed ones included.
MembersOf(c) ==
    {_functions[c][i] : i \in 1..Len(_functions[c])}
        \cup {_modifiers[c][i] : i \in 1..Len(_modifiers[c])}

\* What the members of c have in their own sets of one kind.
OwnSets(c, kind) ==
    {fact[3] : fact \in {x \in _analysis :
                            /\ x[2] = kind
                            /\ \E m \in MembersOf(c) : x[1] = Key(m)}}

\* C8: each of the four flat queries returns exactly what the functions and
\* modifiers of the contract, shadowed ones included, have in their own set:
\* what only a callee outside the contract has in its set is not returned.
C8_FlatUnionOfOwnSets ==
    call.op \in FlatQueries =>
        /\ ret.items = OwnSets(call.self, call.op)
        /\ \A x \in Recorded(LibraryFunction, call.op) :
               x \in ret.items => \E m \in MembersOf(call.self) : x \in Recorded(Key(m), call.op)

\* A shadowed function alone contributes a variable to the result, and a
\* variable that only the called library function writes is left out.
C8_Witness ==
    /\ call.op = "all_state_variables_written"
    /\ \E m \in MembersOf("C") :
           /\ m.is_shadowed
           /\ LibraryFunction \in internal_calls(Key(m))
           /\ Recorded(Key(m), call.op) # {}
           /\ ret.items = Recorded(Key(m), call.op)
    /\ \E x \in Recorded(LibraryFunction, call.op) : x \notin ret.items

----------------------------------------------------------------------------
(* Claims on the state variables *)

\* C9: for every contract, state_variables_declared is included in
\* state_variables, which is included in state_variables_ordered.
C9_VariableInclusions ==
    \A c \in Contracts :
        /\ Range(state_variables_declared(c)) \subseteq Range(state_variables(c))
        /\ Range(state_variables(c)) \subseteq Range(state_variables_ordered(c))

\* C declares a variable that hides an inherited one: the three lists differ,
\* and state_variables_declared was queried.
C9_Witness ==
    /\ call.op = "state_variables_declared"
    /\ ret # <<>>
    /\ Range(state_variables_declared("C")) # Range(state_variables("C"))
    /\ Range(state_variables("C")) # Range(state_variables_ordered("C"))

----------------------------------------------------------------------------
(* Claims on the ERC detectors *)

\* The signatures the contract exposes: the names of its public or external
\* functions and state variables.
Exposed(c) ==
    {_functions[c][i].full_name :
        i \in {j \in 1..Len(_functions[c]) :
                  _functions[c][j].visibility \in {"public", "external"}}}
    \cup {_variables[c][i].full_name :
        i \in {j \in 1..Len(_variables[c]) :
                  _variables[c][j].visibility \in {"public", "external"}}}

Erc20Markers ==
    {"transfer(address,uint256)", "transferFrom(address,address,uint256)",
     "approve(address,uint256)"}

\* C11: is_possible_erc20 is true exactly when one of the three marker
\* signatures is in functions_signatures; it is true whenever is_erc20 is, and
\* true of a contract that exposes the six ERC20 signatures but one.
C11_PossibleErc20IffMarker ==
    call.op = "is_possible_erc20" =>
        /\ ret <=> (Erc20Markers \cap _signatures[call.self].items # {})
        /\ is_erc20(call.self) => ret
        /\ \A s \in ERC20_signatures : Exposed(call.self) = ERC20_signatures \ {s} => ret

\* is_possible_erc20 returned true on a contract that exposes the six
\* signatures but transfer(address,uint256).
C11_Witness ==
    /\ call.op = "is_possible_erc20"
    /\ ret
    /\ Exposed("C") = ERC20_signatures \ {"transfer(address,uint256)"}

----------------------------------------------------------------------------
(* Claims on the upgradeability detectors *)

\* The contracts of the model named Initializable.
InitializableContracts == {c \in slither_contracts : c = "A"}

\* The contracts whose lower-cased name contains upgradeable or upgradable:
\* TokenUpgradeable and UPGRADABLE; UpgradeProxy and Initializable do not.
UpgradeableNamed == {"B", "D"}

SelfAndAncestors(c) == {c} \cup {_inheritance[c][i] : i \in 1..Len(_inheritance[c])}

\* C12: on first access, is_upgradeable is, when a contract named
\* Initializable exists in the model, true exactly when that contract is in
\* the inheritance list, and otherwise true exactly when the contract or one
\* of its ancestors has upgradeable or upgradable in its lower-cased name.
C12_IsUpgradeableFirstAccess ==
    (call.op = "is_upgradeable" /\ call.first) =>
        IF InitializableContracts # {}
        THEN ret <=> (\E i \in 1..Len(_inheritance[call.self]) :
                          _inheritance[call.self][i] \in InitializableContracts)
        ELSE ret <=> (SelfAndAncestors(call.self) \cap UpgradeableNamed # {})

\* Initializable exists and is not inherited by the queried contract, whose
\* ancestors have an upgradeable name: the first access returned false.
C12_Witness ==
    /\ call.op = "is_upgradeable"
    /\ call.first
    /\ "A" \in slither_contracts
    /\ SelfAndAncestors(call.self) \cap UpgradeableNamed # {}
    /\ ~ret

\* The nodes that make a delegatecall: by a low-level call operation, or in
\* the text of an assembly block.
DelegatingNodes == {DelegatecallNode, AssemblyDelegatecallNode}

\* The fallback functions in the function map of c.
FallbackFunctions(c) ==
    {_functions[c][i] : i \in {j \in 1..Len(_functions[c]) : _functions[c][j].is_fallback}}

\* C13: on first access, is_upgradeable_proxy is true exactly when a fallback
\* function of the contract has a node that makes a delegatecall; without a
\* fallback function it is false.
C13_IsUpgradeableProxyFirstAccess ==
    (call.op = "is_upgradeable_proxy" /\ call.first) =>
        /\ ret <=> (\E f \in FallbackFunctions(call.self) :
                        \E i \in 1..Len(f.nodes) : f.nodes[i] \in DelegatingNodes)
        /\ FallbackFunctions(call.self) = {} => ~ret

\* The fallback function only makes a plain call and another function makes
\* a delegatecall: the first access returned false.
C13_Witness ==
    /\ call.op = "is_upgradeable_proxy"
    /\ call.first
    /\ ~ret
    /\ \E f \in FallbackFunctions("C") : f.nodes = <<PlainCallNode>>
    /\ \E i \in 1..Len(_functions["C"]) :
           /\ ~_functions["C"][i].is_fallback
           /\ _functions["C"][i].nodes = <<DelegatecallNode>>

----------------------------------------------------------------------------
(* Claims on the lookups *)

\* The canonical name of each member and variable of the model.
CanonicalNames ==
    [A |-> [f |-> "A.f()", m |-> "A.m()", x |-> "A.x"],
     C |-> [f |-> "C.f()", m |-> "C.m()", x |-> "C.x"]]

CanonicalNameOfMember(m) ==
    IF m.full_name = "f()" THEN CanonicalNames[m.contract_declarer].f
    ELSE CanonicalNames[m.contract_declarer].m

CanonicalNameOfVariable(v) == CanonicalNames[v.contract].x

\* The positions of the list l whose member matches.
FirstOf(l, matching) ==
    IF matching = {} THEN None
    ELSE l[CHOOSE i \in matching : \A j \in matching : i <= j]

\* The list a lookup goes through and the positions of its non-shadowed
\* members that match the name looked up.
LookupList ==
    CASE call.op \in {"get_function_from_signature", "get_function_from_canonical_name"}
             -> _functions[call.self]
      [] call.op \in {"get_modifier_from_signature", "get_modifier_from_canonical_name"}
             -> _modifiers[call.self]
      [] OTHER -> _variables[call.self]

LookupMatches ==
    CASE call.op \in {"get_function_from_signature", "get_modifier_from_signature"}
             -> {i \in 1..Len(LookupList) :
                    LookupList[i].full_name = call.arg /\ ~LookupList[i].is_shadowed}
      [] call.op \in {"get_function_from_canonical_name", "get_modifier_from_canonical_name"}
             -> {i \in 1..Len(LookupList) :
                    /\ CanonicalNameOfMember(LookupList[i]) = call.arg
                    /\ ~LookupList[i].is_shadowed}
      [] call.op = "get_state_variable_from_name"
             -> {i \in 1..Len(LookupList) : LookupList[i].name = call.arg}
      [] OTHER
             -> {i \in 1..Len(LookupList) : CanonicalNameOfVariable(LookupList[i]) = call.arg}

MemberLookups ==
    {"get_function_from_signature", "get_function_from_canonical_name",
     "get_modifier_from_signature", "get_modifier_from_canonical_name"}

VariableLookups == {"get_state_variable_from_name", "get_state_variable_from_canonical_name"}

\* C14: every lookup by signature, by name or by canonical name returns the
\* first non-shadowed member that matches, and never a member whose shadowed
\* flag is set.
C14_FirstNonShadowedMatch ==
    call.op \in MemberLookups \cup VariableLookups =>
        /\ ret = FirstOf(LookupList, LookupMatches)
        /\ (call.op \in MemberLookups /\ ret # None) => ~ret.is_shadowed

\* C15: a lookup of a name that matches no member returns None.
C15_AbsentNameReturnsNone ==
    /\ (call.op \in MemberLookups \cup VariableLookups /\ LookupMatches = {}) => ret = None
    /\ (call.op = "constructor" /\ DeclaredConstructors(call.self) = {}
            /\ DeclaringAncestors(call.self) = {}) => ret = None
    /\ (call.op = "reverse_using_for" /\ call.arg \notin DOMAIN _using_for[call.self])
           => ret = None

----------------------------------------------------------------------------
(* Claims on the signature sets *)

\* The public or external functions of c that no other function hides.
VisibleExposedFunctions(c) ==
    {_functions[c][i] :
        i \in {j \in 1..Len(_functions[c]) :
                  /\ _functions[c][j].visibility \in {"public", "external"}
                  /\ ~_functions[c][j].is_shadowed}}

\* The public or external state variables of c.
ExposedVariables(c) ==
    {_variables[c][i] :
        i \in {j \in 1..Len(_variables[c]) :
                  _variables[c][j].visibility \in {"public", "external"}}}

\* C16: on first access, functions_signatures holds the full_name of exactly
\* the public or external state variables and functions that shadowing does
\* not hide, and functions_signatures_declared the same for the members the
\* contract declares.
C16_SignaturesOfVisibleMembers ==
    /\ (call.op = "functions_signatures" /\ call.first) =>
           ret.items = {m.full_name : m \in VisibleExposedFunctions(call.self)}
                           \cup {v.full_name : v \in ExposedVariables(call.self)}
    /\ (call.op = "functions_signatures_declared" /\ call.first) =>
           ret.items =
               {m.full_name : m \in {x \in VisibleExposedFunctions(call.self) :
                                         x.contract_declarer = call.self}}
                   \cup {v.full_name : v \in {x \in ExposedVariables(call.self) :
                                                 x.contract = call.self}}

----------------------------------------------------------------------------
(* Claims on the memoized values *)

\* What the current contract set and inheritance list of c make of
\* is_upgradeable.
UpgradeableNow(c) ==
    IF InitializableContracts # {}
    THEN \E i \in 1..Len(_inheritance[c]) : _inheritance[c][i] \in InitializableContracts
    ELSE SelfAndAncestors(c) \cap UpgradeableNamed # {}

\* C17: a setInheritance with different data invalidates the memoized
\* values: no later is_upgradeable query returns a value computed from the
\* previous inheritance list.
C17_RelinearizeInvalidatesMemo ==
    call.op = "is_upgradeable" => (ret <=> UpgradeableNow(call.self))

MemoizedQueries ==
    {"functions_signatures", "functions_signatures_declared",
     "is_upgradeable", "is_upgradeable_proxy"}

\* The field that memoizes the query op of c.
MemoField(op, c) ==
    CASE op = "functions_signatures" -> _signatures[c]
      [] op = "functions_signatures_declared" -> _signatures_declared[c]
      [] op = "is_upgradeable" -> _is_upgradeable[c]
      [] op = "is_upgradeable_proxy" -> _is_upgradeable_proxy[c]

\* The value a query returns from what its field stores.
StoredValue(op, field) ==
    IF op \in {"is_upgradeable", "is_upgradeable_proxy"} THEN field.bool ELSE field

\* C18: each memoized value is computed once: the first access stores a
\* value that is not None, and a later access leaves the field as it was and
\* returns the stored value.
C18_MemoizedOnce ==
    call.op \in MemoizedQueries =>
        /\ MemoField(call.op, call.self) # None
        /\ ret = StoredValue(call.op, MemoField(call.op, call.self))
        /\ ~call.first => MemoField(call.op, call.self) = call.before

\* A later access of is_upgradeable returned the stored value although the
\* inheritance list has changed since and a computation would give another.
C18_Witness ==
    /\ call.op = "is_upgradeable"
    /\ ~call.first
    /\ ret = call.before.bool
    /\ ret # UpgradeableNow(call.self)

----------------------------------------------------------------------------
(* Claims on queries between changes *)

\* C19: a closure query made after the function and modifier sets changed
\* returns what the current sets give, whatever queries were made before the
\* change: the four flat unions the own sets of the current members, and
\* all_functions_called the current non-shadowed members, what they reach
\* and the resolved constructors of the ancestors.
C19_NeverStale ==
    /\ call.op \in FlatQueries => ret.items = OwnSets("C", call.op)
    /\ call.op = "all_functions_called" =>
           ret.items = NotShadowedKeys("C") \cup ReachableFromMembers("C")
                           \cup AncestorConstructors("C")

\* The modifier, declared after an earlier query had returned, gives the
\* result of a flat query an element that no function of C has.
C19_Witness ==
    /\ call.op \in FlatQueries
    /\ Key(ClosureModifier) \in KeysOf("C")
    /\ Recorded(Key(ClosureModifier), call.op) # {}
    /\ \A i \in 1..Len(_functions["C"]) : Recorded(Key(_functions["C"][i]), call.op) = {}
    /\ ret.items = Recorded(Key(ClosureModifier), call.op)

====
